---------------------------- MODULE Spec2Model ----------------------------
(***************************************************************************)
(* Model of examples/nrf/src/bin/usb_hid_keyboard.rs: the POWER interrupt  *)
(* handler, the single-slot command channel USB_COMMANDS, the device state *)
(* handler callbacks, and the three futures joined in main (usb.run(),     *)
(* in_fut, out_fut).                                                       *)
(*                                                                         *)
(* The interrupt handler runs at interrupt priority and is not preempted   *)
(* by the thread-mode executor, so one invocation is one step.  Inside a   *)
(* future every stretch of code between two .await points is one step.     *)
(* The variable log holds the defmt records (info!, warn!) written by the  *)
(* latest step, out_resp the value that step returned to the HID class.    *)
(***************************************************************************)
EXTENDS Integers, Sequences, FiniteSets, TLC

\* ------------------------------------------------------------------ bounds
MaxIrq == 2          \* invocations of on_power_interrupt explored
MaxPress == 2        \* physical presses of the button explored
MaxReports == 3      \* HID reports handed to the IN endpoint explored

\* --------------------------------------------------------------- constants
CHANNEL_N == 1       \* Channel<CriticalSectionRawMutex, DeviceCommand, 1>
KEY_A == 4           \* keycodes: [4, 0, 0, 0, 0, 0]

DeviceCommand == {"Enable", "Disable", "RemoteWakeup"}
Addrs == {1, 2}

VARIABLES
    USB_COMMANDS,         \* queue of the channel, a sequence of DeviceCommand
    SUSPENDED,            \* static SUSPENDED: AtomicBool
    configured,           \* MyDeviceStateHandler.configured: AtomicBool
    events_usbdetected,   \* POWER.EVENTS_USBDETECTED register
    events_usbremoved,    \* POWER.EVENTS_USBREMOVED register
    enabled,              \* the USB device is enabled (transport state)
    button,               \* level of pin P0_11: "high" (released) / "low"
    in_pc,                \* the await point in_fut is suspended at
    in_woken,             \* the pin event in_fut waits for has fired
    reports,              \* reports handed to hid_in.serialize, in order
    log,                  \* defmt records written by the latest step
    out_resp,             \* answer of the request handler in the latest step
    nIrq,                 \* invocations of on_power_interrupt so far
    nCmds,                \* Enable/Disable commands accepted by the channel
    nPress,               \* physical presses of the button so far
    lastCb,               \* last callback other than suspended() received
    lastSusp              \* argument of the last suspended() callback, after
                          \* TRUE when it is a resume that followed a suspend

vars == <<USB_COMMANDS, SUSPENDED, configured, events_usbdetected,
          events_usbremoved, enabled, button, in_pc, in_woken, reports, log,
          out_resp, nIrq, nCmds, nPress, lastCb, lastSusp>>

chanVars == <<USB_COMMANDS>>
powerVars == <<events_usbdetected, events_usbremoved>>
irqGhost == <<nIrq, nCmds>>
cbGhost == <<lastCb, lastSusp>>
inVars == <<in_pc, in_woken, reports>>
lineVars == <<button, nPress>>

\* A step that calls no request handler returns nothing to the HID class.
NoResp == out_resp' = "-"

\* A step that writes no defmt record and answers no request.
Quiet == log' = <<>> /\ NoResp

\* ------------------------------------------------------- embassy channel
\* Channel::try_send: enqueue without waiting, Err(Full) when the queue
\* already holds N messages.
try_send(ch, message) ==
    IF Len(ch) < CHANNEL_N
    THEN [ok |-> TRUE, ch |-> Append(ch, message)]
    ELSE [ok |-> FALSE, ch |-> ch]

\* Channel::send only builds a SendFuture; the message is enqueued when the
\* future is polled.
send(ch, message) == [channel |-> ch, message |-> message]

\* Dropping a SendFuture that was never polled leaves the queue as it was.
drop_unpolled(fut) == fut.channel

\* ------------------------------------------------------------ HID reports
\* Variant: the key code is stored in the second keycode slot.
PressedReport_SecondSlot ==
    [keycodes |-> <<0, 4, 0, 0, 0, 0>>, leds |-> 0, modifier |-> 0,
     reserved |-> 0]

KeyboardReport(k0) ==
    [keycodes |-> <<k0, 0, 0, 0, 0, 0>>, leds |-> 0, modifier |-> 0,
     reserved |-> 0]

PressedReport == KeyboardReport(KEY_A)

ReleasedReport == KeyboardReport(0)

\* ------------------------------------------------------------------- Init
Init ==
    /\ USB_COMMANDS = <<>>
    /\ SUSPENDED = FALSE
    /\ configured = FALSE
    /\ events_usbdetected = 0
    /\ events_usbremoved = 0
    /\ enabled = FALSE
    /\ button = "high"
    /\ in_pc = "wait_for_low"
    /\ in_woken = FALSE
    /\ reports = <<>>
    /\ log = <<>>
    /\ out_resp = "-"
    /\ nIrq = 0
    /\ nCmds = 0
    /\ nPress = 0
    /\ lastCb = [cb |-> "none", arg |-> FALSE]
    /\ lastSusp = <<>>

\* ------------------------------------------------------- power hardware
\* The POWER peripheral latches a Vbus-detected event.
VbusDetected ==
    /\ events_usbdetected = 0
    /\ events_usbdetected' = 1
    /\ Quiet
    /\ UNCHANGED <<chanVars, events_usbremoved, irqGhost, SUSPENDED,
                   configured, cbGhost, enabled, inVars, lineVars>>

\* The POWER peripheral latches a Vbus-removed event.
VbusRemoved ==
    /\ events_usbremoved = 0
    /\ events_usbremoved' = 1
    /\ Quiet
    /\ UNCHANGED <<chanVars, events_usbdetected, irqGhost, SUSPENDED,
                   configured, cbGhost, enabled, inVars, lineVars>>

\* ---------------------------------------------------- on_power_interrupt
\* What an invocation leaves unchanged, and its count.
IrqFrame ==
    /\ nIrq < MaxIrq
    /\ nIrq' = nIrq + 1
    /\ NoResp
    /\ UNCHANGED <<SUSPENDED, configured, cbGhost, enabled, inVars, lineVars>>

\* Variant: a full channel is overwritten instead of refusing the command.
on_power_interrupt_Overwrite ==
    /\ IrqFrame
    /\ LET detected == events_usbdetected # 0
           ch1 == IF detected THEN <<"Enable">> ELSE USB_COMMANDS
           removed == events_usbremoved # 0
           ch2 == IF removed THEN <<"Disable">> ELSE ch1
       IN  /\ events_usbdetected' = IF detected THEN 0 ELSE events_usbdetected
           /\ events_usbremoved' = IF removed THEN 0 ELSE events_usbremoved
           /\ USB_COMMANDS' = ch2
           /\ log' = (IF detected THEN <<"Vbus detected, enabling USB...">>
                                  ELSE <<>>)
                     \o (IF removed THEN <<"Vbus removed, disabling USB...">>
                                    ELSE <<>>)
           /\ nCmds' = nCmds + (IF detected THEN 1 ELSE 0)
                             + (IF removed THEN 1 ELSE 0)

\* The records and effects of one flag of the handler: r is the result of
\* the try_send, or of no attempt when the flag is clear.
FlagLog(asserted, r, info, warning) ==
    IF ~asserted THEN <<>>
    ELSE IF r.ok THEN <<info>>
    ELSE <<info, warning>>

NoAttempt(ch) == [ok |-> TRUE, ch |-> ch]

Accepted(asserted, r) == IF asserted /\ r.ok THEN 1 ELSE 0

\* Variant: the handler returns after a refused Enable.
on_power_interrupt_ReturnOnFull ==
    /\ IrqFrame
    /\ LET detected == events_usbdetected # 0
           r1 == IF detected THEN try_send(USB_COMMANDS, "Enable")
                             ELSE NoAttempt(USB_COMMANDS)
           removed == r1.ok /\ events_usbremoved # 0
           r2 == IF removed THEN try_send(r1.ch, "Disable")
                            ELSE NoAttempt(r1.ch)
       IN  /\ events_usbdetected' = IF detected THEN 0 ELSE events_usbdetected
           /\ events_usbremoved' = IF removed THEN 0 ELSE events_usbremoved
           /\ USB_COMMANDS' = r2.ch
           /\ log' = FlagLog(detected, r1, "Vbus detected, enabling USB...",
                        "Failed to send enable command to USB channel")
                     \o FlagLog(removed, r2, "Vbus removed, disabling USB...",
                        "Failed to send disable command to USB channel")
           /\ nCmds' = nCmds + Accepted(detected, r1) + Accepted(removed, r2)

\* Variant: the commands of the two flags are exchanged.
on_power_interrupt_Swapped ==
    /\ IrqFrame
    /\ LET detected == events_usbdetected # 0
           r1 == IF detected THEN try_send(USB_COMMANDS, "Disable")
                             ELSE NoAttempt(USB_COMMANDS)
           removed == events_usbremoved # 0
           r2 == IF removed THEN try_send(r1.ch, "Enable")
                            ELSE NoAttempt(r1.ch)
       IN  /\ events_usbdetected' = IF detected THEN 0 ELSE events_usbdetected
           /\ events_usbremoved' = IF removed THEN 0 ELSE events_usbremoved
           /\ USB_COMMANDS' = r2.ch
           /\ log' = FlagLog(detected, r1, "Vbus detected, enabling USB...",
                        "Failed to send enable command to USB channel")
                     \o FlagLog(removed, r2, "Vbus removed, disabling USB...",
                        "Failed to send disable command to USB channel")
           /\ nCmds' = nCmds + Accepted(detected, r1) + Accepted(removed, r2)

\* Variant: the removed flag is evaluated before the detected flag.
on_power_interrupt_RemovedFirst ==
    /\ IrqFrame
    /\ LET removed == events_usbremoved # 0
           r1 == IF removed THEN try_send(USB_COMMANDS, "Disable")
                            ELSE NoAttempt(USB_COMMANDS)
           detected == events_usbdetected # 0
           r2 == IF detected THEN try_send(r1.ch, "Enable")
                             ELSE NoAttempt(r1.ch)
       IN  /\ events_usbdetected' = IF detected THEN 0 ELSE events_usbdetected
           /\ events_usbremoved' = IF removed THEN 0 ELSE events_usbremoved
           /\ USB_COMMANDS' = r2.ch
           /\ log' = FlagLog(removed, r1, "Vbus removed, disabling USB...",
                        "Failed to send disable command to USB channel")
                     \o FlagLog(detected, r2, "Vbus detected, enabling USB...",
                        "Failed to send enable command to USB channel")
           /\ nCmds' = nCmds + Accepted(detected, r2) + Accepted(removed, r1)

\* Variant: the removed flag is left asserted.
on_power_interrupt_NoClear ==
    /\ IrqFrame
    /\ LET detected == events_usbdetected # 0
           r1 == IF detected THEN try_send(USB_COMMANDS, "Enable")
                             ELSE NoAttempt(USB_COMMANDS)
           removed == events_usbremoved # 0
           r2 == IF removed THEN try_send(r1.ch, "Disable")
                            ELSE NoAttempt(r1.ch)
       IN  /\ events_usbdetected' = IF detected THEN 0 ELSE events_usbdetected
           /\ events_usbremoved' = events_usbremoved
           /\ USB_COMMANDS' = r2.ch
           /\ log' = FlagLog(detected, r1, "Vbus detected, enabling USB...",
                        "Failed to send enable command to USB channel")
                     \o FlagLog(removed, r2, "Vbus removed, disabling USB...",
                        "Failed to send disable command to USB channel")
           /\ nCmds' = nCmds + Accepted(detected, r1) + Accepted(removed, r2)

\* Variant: on a full channel the pending command is thrown away and the
\* new one takes its place.
on_power_interrupt_DropPending ==
    /\ IrqFrame
    /\ LET detected == events_usbdetected # 0
           r1 == IF detected
                 THEN IF Len(USB_COMMANDS) < CHANNEL_N
                      THEN try_send(USB_COMMANDS, "Enable")
                      ELSE [ok |-> FALSE, ch |-> <<"Enable">>]
                 ELSE NoAttempt(USB_COMMANDS)
           removed == events_usbremoved # 0
           r2 == IF removed
                 THEN IF Len(r1.ch) < CHANNEL_N
                      THEN try_send(r1.ch, "Disable")
                      ELSE [ok |-> FALSE, ch |-> <<"Disable">>]
                 ELSE NoAttempt(r1.ch)
       IN  /\ events_usbdetected' = IF detected THEN 0 ELSE events_usbdetected
           /\ events_usbremoved' = IF removed THEN 0 ELSE events_usbremoved
           /\ USB_COMMANDS' = r2.ch
           /\ log' = FlagLog(detected, r1, "Vbus detected, enabling USB...",
                        "Failed to send enable command to USB channel")
                     \o FlagLog(removed, r2, "Vbus removed, disabling USB...",
                        "Failed to send disable command to USB channel")
           /\ nCmds' = nCmds + Accepted(detected, r1) + Accepted(removed, r2)

\* The POWER_CLOCK vector is shared with the clock events, so the handler
\* can also run with neither flag set.
on_power_interrupt ==
    /\ IrqFrame
    /\ LET detected == events_usbdetected # 0
           r1 == IF detected THEN try_send(USB_COMMANDS, "Enable")
                             ELSE NoAttempt(USB_COMMANDS)
           removed == events_usbremoved # 0
           r2 == IF removed THEN try_send(r1.ch, "Disable")
                            ELSE NoAttempt(r1.ch)
       IN  /\ events_usbdetected' = IF detected THEN 0 ELSE events_usbdetected
           /\ events_usbremoved' = IF removed THEN 0 ELSE events_usbremoved
           /\ USB_COMMANDS' = r2.ch
           /\ log' = FlagLog(detected, r1, "Vbus detected, enabling USB...",
                        "Failed to send enable command to USB channel")
                     \o FlagLog(removed, r2, "Vbus removed, disabling USB...",
                        "Failed to send disable command to USB channel")
           /\ nCmds' = nCmds + Accepted(detected, r1) + Accepted(removed, r2)

\* -------------------------------------------------- MyDeviceStateHandler
\* The callbacks of impl DeviceStateHandler: what each stores and logs.

\* Variant: addressed() does not clear the configured flag.
MyDeviceStateHandler_addressed_Keeps(addr) ==
    /\ log' = <<"USB address set to">>
    /\ UNCHANGED <<configured, SUSPENDED>>

\* Variant: a resume clears SUSPENDED only in the configured branch.
MyDeviceStateHandler_suspended_IfConfigured(flag) ==
    /\ IF flag
       THEN /\ log' = <<"Device suspended">>
            /\ SUSPENDED' = TRUE
       ELSE IF configured
            THEN /\ SUSPENDED' = FALSE
                 /\ log' = <<"Device resumed, configured current limit">>
            ELSE /\ UNCHANGED SUSPENDED
                 /\ log' = <<"Device resumed, the Vbus current limit is 100mA">>
    /\ UNCHANGED configured

MyDeviceStateHandler_reset ==
    /\ configured' = FALSE
    /\ log' = <<"Bus reset">>
    /\ UNCHANGED SUSPENDED

MyDeviceStateHandler_addressed(addr) ==
    /\ configured' = FALSE
    /\ log' = <<"USB address set to">>
    /\ UNCHANGED SUSPENDED

MyDeviceStateHandler_configured(flag) ==
    /\ configured' = flag
    /\ log' = IF flag THEN <<"Device configured">>
                      ELSE <<"Device is no longer configured">>
    /\ UNCHANGED SUSPENDED

MyDeviceStateHandler_suspended(flag) ==
    /\ IF flag
       THEN /\ log' = <<"Device suspended">>
            /\ SUSPENDED' = TRUE
       ELSE /\ SUSPENDED' = FALSE
            /\ log' = IF configured
                      THEN <<"Device resumed, configured current limit">>
                      ELSE <<"Device resumed, the Vbus current limit is 100mA">>
    /\ UNCHANGED configured

\* Variant: disabled() clears SUSPENDED as well.
MyDeviceStateHandler_disabled_ClearsSuspended ==
    /\ configured' = FALSE
    /\ log' = <<"Device disabled">>
    /\ SUSPENDED' = FALSE

MyDeviceStateHandler_disabled ==
    /\ configured' = FALSE
    /\ log' = <<"Device disabled">>
    /\ UNCHANGED SUSPENDED

\* --------------------------------------------------------- usb.run()
\* Bus events the transport sees while the device is enabled; it calls the
\* matching callback synchronously.
UsbBusReset ==
    /\ enabled
    /\ MyDeviceStateHandler_reset
    /\ lastCb' = [cb |-> "reset", arg |-> FALSE]
    /\ NoResp
    /\ UNCHANGED <<lastSusp, chanVars, powerVars, irqGhost, enabled, inVars,
                   lineVars>>

UsbSetAddress(addr) ==
    /\ enabled
    /\ MyDeviceStateHandler_addressed(addr)
    /\ lastCb' = [cb |-> "addressed", arg |-> FALSE]
    /\ NoResp
    /\ UNCHANGED <<lastSusp, chanVars, powerVars, irqGhost, enabled, inVars,
                   lineVars>>

UsbSetConfiguration(flag) ==
    /\ enabled
    /\ MyDeviceStateHandler_configured(flag)
    /\ lastCb' = [cb |-> "configured", arg |-> flag]
    /\ NoResp
    /\ UNCHANGED <<lastSusp, chanVars, powerVars, irqGhost, enabled, inVars,
                   lineVars>>

UsbSuspendResume(flag) ==
    /\ enabled
    /\ MyDeviceStateHandler_suspended(flag)
    /\ lastSusp' = IF ~flag /\ lastSusp = <<TRUE>> THEN <<TRUE, FALSE>>
                    ELSE <<flag>>
    /\ NoResp
    /\ UNCHANGED <<lastCb, chanVars, powerVars, irqGhost, enabled, inVars,
                   lineVars>>

\* Variant: the transport looks at the command without taking it out.
UsbRecv_Peek ==
    /\ Len(USB_COMMANDS) > 0
    /\ USB_COMMANDS' = USB_COMMANDS
    /\ LET cmd == Head(USB_COMMANDS)
       IN  CASE cmd = "Enable" ->
                    /\ enabled' = TRUE
                    /\ log' = <<>>
                    /\ UNCHANGED <<SUSPENDED, configured, cbGhost>>
             [] cmd = "Disable" /\ enabled ->
                    /\ enabled' = FALSE
                    /\ MyDeviceStateHandler_disabled
                    /\ lastCb' = [cb |-> "disabled", arg |-> FALSE]
                    /\ UNCHANGED lastSusp
             [] OTHER ->
                    /\ log' = <<>>
                    /\ UNCHANGED <<enabled, SUSPENDED, configured, cbGhost>>
    /\ NoResp
    /\ UNCHANGED <<powerVars, irqGhost, inVars, lineVars>>

\* The transport receives one command from the channel and applies it:
\* Enable and Disable switch the device, a repeated one changes nothing;
\* disabled() is called when the device goes from enabled to disabled.
UsbRecv ==
    /\ Len(USB_COMMANDS) > 0
    /\ USB_COMMANDS' = Tail(USB_COMMANDS)
    /\ LET cmd == Head(USB_COMMANDS)
       IN  CASE cmd = "Enable" ->
                    /\ enabled' = TRUE
                    /\ log' = <<>>
                    /\ UNCHANGED <<SUSPENDED, configured, cbGhost>>
             [] cmd = "Disable" /\ enabled ->
                    /\ enabled' = FALSE
                    /\ MyDeviceStateHandler_disabled
                    /\ lastCb' = [cb |-> "disabled", arg |-> FALSE]
                    /\ UNCHANGED lastSusp
             [] OTHER ->
                    /\ log' = <<>>
                    /\ UNCHANGED <<enabled, SUSPENDED, configured, cbGhost>>
    /\ NoResp
    /\ UNCHANGED <<powerVars, irqGhost, inVars, lineVars>>

\* ------------------------------------------------------------- the button
\* Input::wait_for_low / wait_for_high arm the pin's sense for a level; the
\* pin event fires when the pin is at that level on arming or reaches it
\* later, and stays fired until the future is polled.
ButtonPress ==
    /\ button = "high"
    /\ nPress < MaxPress
    /\ button' = "low"
    /\ nPress' = nPress + 1
    /\ in_woken' = IF in_pc = "wait_for_low" THEN TRUE ELSE in_woken
    /\ Quiet
    /\ UNCHANGED <<in_pc, reports, chanVars, powerVars, irqGhost, SUSPENDED,
                   configured, cbGhost, enabled>>

ButtonRelease ==
    /\ button = "low"
    /\ button' = "high"
    /\ in_woken' = IF in_pc = "wait_for_high" THEN TRUE ELSE in_woken
    /\ Quiet
    /\ UNCHANGED <<in_pc, reports, nPress, chanVars, powerVars, irqGhost,
                   SUSPENDED, configured, cbGhost, enabled>>

\* ----------------------------------------------------------------- in_fut
\* Variant: the press branch does not wait for the button to go low.
in_fut_pressed_NoWait ==
    /\ in_pc = "wait_for_low"
    /\ Len(reports) < MaxReports
    /\ log' = IF SUSPENDED THEN <<"PRESSED", "Triggering remote wakeup">>
                           ELSE <<"PRESSED">>
    /\ USB_COMMANDS' = USB_COMMANDS
    /\ reports' = Append(reports, PressedReport)
    /\ in_pc' = "serialize_pressed"
    /\ in_woken' = FALSE
    /\ NoResp
    /\ UNCHANGED <<powerVars, irqGhost, SUSPENDED, configured, cbGhost,
                   enabled, lineVars>>

\* Variant: the wakeup branch clears SUSPENDED itself.
in_fut_pressed_ClearsSuspended ==
    /\ in_pc = "wait_for_low"
    /\ in_woken
    /\ Len(reports) < MaxReports
    /\ log' = IF SUSPENDED THEN <<"PRESSED", "Triggering remote wakeup">>
                           ELSE <<"PRESSED">>
    /\ USB_COMMANDS' = USB_COMMANDS
    /\ SUSPENDED' = FALSE
    /\ reports' = Append(reports, PressedReport)
    /\ in_pc' = "serialize_pressed"
    /\ in_woken' = FALSE
    /\ NoResp
    /\ UNCHANGED <<powerVars, irqGhost, configured, cbGhost, enabled,
                   lineVars>>

\* Variant: the send of RemoteWakeup is awaited and the command enqueued.
in_fut_pressed_Awaited ==
    /\ in_pc = "wait_for_low"
    /\ in_woken
    /\ Len(reports) < MaxReports
    /\ SUSPENDED => Len(USB_COMMANDS) < CHANNEL_N
    /\ log' = IF SUSPENDED THEN <<"PRESSED", "Triggering remote wakeup">>
                           ELSE <<"PRESSED">>
    /\ USB_COMMANDS' = IF SUSPENDED
                       THEN Append(USB_COMMANDS, "RemoteWakeup")
                       ELSE USB_COMMANDS
    /\ reports' = Append(reports, PressedReport)
    /\ in_pc' = "serialize_pressed"
    /\ in_woken' = FALSE
    /\ NoResp
    /\ UNCHANGED <<powerVars, irqGhost, SUSPENDED, configured, cbGhost,
                   enabled, lineVars>>

\* wait_for_low() resolves; the code runs up to the first serialize().await.
\* USB_COMMANDS.send(..) is not awaited: the future is built and dropped.
in_fut_pressed ==
    /\ in_pc = "wait_for_low"
    /\ in_woken
    /\ Len(reports) < MaxReports
    /\ log' = IF SUSPENDED THEN <<"PRESSED", "Triggering remote wakeup">>
                           ELSE <<"PRESSED">>
    /\ USB_COMMANDS' = IF SUSPENDED
                       THEN drop_unpolled(send(USB_COMMANDS, "RemoteWakeup"))
                       ELSE USB_COMMANDS
    /\ reports' = Append(reports, PressedReport)
    /\ in_pc' = "serialize_pressed"
    /\ in_woken' = FALSE
    /\ NoResp
    /\ UNCHANGED <<powerVars, irqGhost, SUSPENDED, configured, cbGhost,
                   enabled, lineVars>>

\* Variant: a failed serialize is tried again.
in_fut_serialized_Retry(ok) ==
    /\ in_pc \in {"serialize_pressed", "serialize_released"}
    /\ log' = IF ok THEN <<>> ELSE <<"Failed to send report">>
    /\ in_pc' = IF ~ok THEN in_pc
                ELSE IF in_pc = "serialize_pressed" THEN "wait_for_high"
                ELSE "wait_for_low"
    /\ in_woken' = IF ~ok THEN in_woken
                   ELSE IF in_pc = "serialize_pressed" THEN button = "high"
                   ELSE button = "low"
    /\ NoResp
    /\ UNCHANGED <<reports, chanVars, powerVars, irqGhost, SUSPENDED,
                   configured, cbGhost, enabled, lineVars>>

\* hid_in.serialize(&report).await resolves with Ok or Err; the code logs a
\* warning on Err and arms the next wait on the button.
in_fut_serialized(ok) ==
    /\ in_pc \in {"serialize_pressed", "serialize_released"}
    /\ log' = IF ok THEN <<>> ELSE <<"Failed to send report">>
    /\ in_pc' = IF in_pc = "serialize_pressed" THEN "wait_for_high"
                                               ELSE "wait_for_low"
    /\ in_woken' = IF in_pc = "serialize_pressed" THEN button = "high"
                                                  ELSE button = "low"
    /\ NoResp
    /\ UNCHANGED <<reports, chanVars, powerVars, irqGhost, SUSPENDED,
                   configured, cbGhost, enabled, lineVars>>

\* Variant: the release branch takes the wakeup decision as well.
in_fut_released_Wakeup ==
    /\ in_pc = "wait_for_high"
    /\ in_woken
    /\ Len(reports) < MaxReports
    /\ log' = IF SUSPENDED THEN <<"RELEASED", "Triggering remote wakeup">>
                           ELSE <<"RELEASED">>
    /\ reports' = Append(reports, ReleasedReport)
    /\ in_pc' = "serialize_released"
    /\ in_woken' = FALSE
    /\ NoResp
    /\ UNCHANGED <<chanVars, powerVars, irqGhost, SUSPENDED, configured,
                   cbGhost, enabled, lineVars>>

\* wait_for_high() resolves; the code runs up to the second serialize().await.
in_fut_released ==
    /\ in_pc = "wait_for_high"
    /\ in_woken
    /\ Len(reports) < MaxReports
    /\ log' = <<"RELEASED">>
    /\ reports' = Append(reports, ReleasedReport)
    /\ in_pc' = "serialize_released"
    /\ in_woken' = FALSE
    /\ NoResp
    /\ UNCHANGED <<chanVars, powerVars, irqGhost, SUSPENDED, configured,
                   cbGhost, enabled, lineVars>>

\* -------------------------------------------------------- MyRequestHandler
ReportIds == {"In(0)", "Feature(1)"}
IdleIds == {"None", "In(0)"}
Payloads == {<<1>>}
Durations == {500}

\* Each method: the record it logs and the value it returns.
get_report(id) == [log |-> <<"Get report for">>, ret |-> "None"]

set_report(id, data) == [log |-> <<"Set report for">>, ret |-> "Accepted"]

set_idle(id, dur) == [log |-> <<"Set idle rate for">>, ret |-> "()"]

\* Variant: get_idle answers with a duration.
get_idle_Some(id) == [log |-> <<"Get idle rate for">>, ret |-> "Some(500)"]

get_idle(id) == [log |-> <<"Get idle rate for">>, ret |-> "None"]

\* ---------------------------------------------------------------- out_fut
\* hid_out.run() dispatches one host request to the request handler.
out_fut_get_report(id) ==
    /\ log' = get_report(id).log
    /\ out_resp' = get_report(id).ret
    /\ UNCHANGED <<chanVars, powerVars, irqGhost, SUSPENDED, configured,
                   cbGhost, enabled, inVars, lineVars>>

out_fut_set_report(id, data) ==
    /\ log' = set_report(id, data).log
    /\ out_resp' = set_report(id, data).ret
    /\ UNCHANGED <<chanVars, powerVars, irqGhost, SUSPENDED, configured,
                   cbGhost, enabled, inVars, lineVars>>

out_fut_set_idle(id, dur) ==
    /\ log' = set_idle(id, dur).log
    /\ out_resp' = set_idle(id, dur).ret
    /\ UNCHANGED <<chanVars, powerVars, irqGhost, SUSPENDED, configured,
                   cbGhost, enabled, inVars, lineVars>>

out_fut_get_idle(id) ==
    /\ log' = get_idle(id).log
    /\ out_resp' = get_idle(id).ret
    /\ UNCHANGED <<chanVars, powerVars, irqGhost, SUSPENDED, configured,
                   cbGhost, enabled, inVars, lineVars>>

\* ------------------------------------------------------------------- Next
Next ==
    \/ VbusDetected
    \/ VbusRemoved
    \/ on_power_interrupt
    \/ UsbBusReset
    \/ \E addr \in Addrs : UsbSetAddress(addr)
    \/ \E flag \in BOOLEAN : UsbSetConfiguration(flag)
    \/ \E flag \in BOOLEAN : UsbSuspendResume(flag)
    \/ UsbRecv
    \/ ButtonPress
    \/ ButtonRelease
    \/ in_fut_pressed
    \/ \E ok \in BOOLEAN : in_fut_serialized(ok)
    \/ in_fut_released
    \/ \E id \in ReportIds : out_fut_get_report(id)
    \/ \E id \in ReportIds, data \in Payloads : out_fut_set_report(id, data)
    \/ \E id \in IdleIds, dur \in Durations : out_fut_set_idle(id, dur)
    \/ \E id \in IdleIds : out_fut_get_idle(id)

Spec == Init /\ [][Next]_vars

\* usb.run() is polled by join() whenever it is woken, so a command that is
\* in the channel is eventually received.
FairSpec == Spec /\ WF_vars(UsbRecv)

\* ============================================================== properties
IsPressStep == in_pc = "wait_for_low" /\ in_pc' = "serialize_pressed"

IsIrqStep == nIrq' = nIrq + 1

Count(seq, x) == Cardinality({i \in 1..Len(seq) : seq[i] = x})

\* The warn! records of the interrupt handler and their number in a log.
IrqWarnings ==
    {"Failed to send enable command to USB channel",
     "Failed to send disable command to USB channel"}

Warned(l) == Cardinality({i \in 1..Len(l) : l[i] \in IrqWarnings})

\* The wakeup branch of in_fut was taken in the step that wrote log l.
WakeBranch(l) == \E i \in 1..Len(l) : l[i] = "Triggering remote wakeup"

\* C1: at every press edge in_fut observes, a RemoteWakeup command is put
\* into the channel (before the pressed report is handed over) when
\* SUSPENDED is true, and the channel is left alone when it is false.
C1_WakeupEnqueuedOnSuspendedPress ==
    [][IsPressStep =>
         IF SUSPENDED
         THEN USB_COMMANDS' = Append(USB_COMMANDS, "RemoteWakeup")
         ELSE USB_COMMANDS' = USB_COMMANDS]_vars

\* C2: the channel never holds more than one command, and the Enable and
\* Disable commands it has accepted never outnumber the invocations of the
\* interrupt handler.
C2_MailboxBounded ==
    /\ Len(USB_COMMANDS) <= 1
    /\ nCmds <= nIrq

\* Two invocations, two commands accepted, the first one received by the
\* transport in between.
C2_Witness ==
    /\ nIrq = 2
    /\ nCmds = 2
    /\ enabled
    /\ USB_COMMANDS = <<"Disable">>

\* C3: one invocation of the handler appends at most one command to the
\* channel; the command belongs to a flag that was set, and it is Enable
\* when both flags were set.
C3_AtMostOneDelivered ==
    [][IsIrqStep =>
         \/ USB_COMMANDS' = USB_COMMANDS
         \/ /\ USB_COMMANDS' = Append(USB_COMMANDS, "Enable")
            /\ events_usbdetected # 0
         \/ /\ USB_COMMANDS' = Append(USB_COMMANDS, "Disable")
            /\ events_usbremoved # 0
            /\ events_usbdetected = 0]_vars

\* The first invocation found both flags set: Enable went in, the Disable
\* attempt was refused.
C3_Witness ==
    /\ nIrq = 1
    /\ nCmds = 1
    /\ Warned(log) = 1
    /\ USB_COMMANDS = <<"Enable">>

\* C4 as claimed: once in_fut is back at wait_for_low with the button
\* released and nothing pending, every physical press has produced exactly
\* one pressed and one released report.
C4_OnePairPerPhysicalCycle ==
    (/\ in_pc = "wait_for_low"
     /\ ~in_woken
     /\ button = "high")
    => /\ Count(reports, PressedReport) = nPress
       /\ Count(reports, ReleasedReport) = nPress

\* C4 as amended: the reports alternate pressed, released, ... starting
\* with pressed; in_fut hands over one pressed report per press it observes
\* and one released report per release it then observes; there are never
\* more pressed reports than physical presses.
C4_ReportsAlternate ==
    /\ \A i \in 1..Len(reports) :
          reports[i] = IF i % 2 = 1 THEN PressedReport ELSE ReleasedReport
    /\ in_pc \in {"wait_for_low", "serialize_released"}
          <=> Len(reports) % 2 = 0
    /\ in_pc = "serialize_released" => Len(reports) > 0
    /\ Count(reports, PressedReport) <= nPress

\* Two physical cycles, both observed: the first one reported in full, the
\* pressed report of the second one handed over.
C4_Witness ==
    /\ nPress = 2
    /\ in_pc = "serialize_pressed"
    /\ Len(reports) = 3

\* C5: a pressed report (odd position) has 4 in the first keycode slot and
\* zero everywhere else; a released report (even position) is all zero.
C5_ReportContents ==
    \A i \in 1..Len(reports) :
        /\ DOMAIN reports[i] = {"keycodes", "leds", "modifier", "reserved"}
        /\ Len(reports[i].keycodes) = 6
        /\ reports[i].keycodes[1] = IF i % 2 = 1 THEN 4 ELSE 0
        /\ \A k \in 2..6 : reports[i].keycodes[k] = 0
        /\ reports[i].leds = 0
        /\ reports[i].modifier = 0
        /\ reports[i].reserved = 0

\* A pressed and a released report have been handed over.
C5_Witness ==
    /\ Len(reports) >= 2
    /\ in_pc = "wait_for_low"

LastSuspArg == lastSusp # <<>> /\ lastSusp[Len(lastSusp)]

FlagsSet ==
    (IF events_usbdetected # 0 THEN 1 ELSE 0)
    + (IF events_usbremoved # 0 THEN 1 ELSE 0)

\* C6: the configured flag is true exactly when the most recent callback
\* other than suspended() was configured(true); it is false initially and
\* after reset(), addressed(), configured(false) and disabled().
C6_ConfiguredTracksLastCall ==
    configured = (lastCb = [cb |-> "configured", arg |-> TRUE])

\* configured(true) is the most recent of those callbacks and a suspend and
\* a resume have been delivered as well.
C6_Witness ==
    /\ configured
    /\ lastCb = [cb |-> "configured", arg |-> TRUE]
    /\ lastSusp = <<TRUE, FALSE>>

\* C7: SUSPENDED equals the argument of the most recent suspended() call
\* (false before the first), configured or not, and the branch in_fut takes
\* at a press edge is the one for that value.
C7_SuspendedTracksLastCall ==
    /\ [](SUSPENDED = LastSuspArg)
    /\ [][IsPressStep => WakeBranch(log') = LastSuspArg]_vars

\* suspended(true) then suspended(false) on a device that is not
\* configured, then a press that took the branch without wakeup.
C7_Witness ==
    /\ lastSusp = <<TRUE, FALSE>>
    /\ ~SUSPENDED
    /\ ~configured
    /\ in_pc = "serialize_pressed"
    /\ log = <<"PRESSED">>

\* C8: an invocation of the handler always runs to its end: it is never
\* blocked, it leaves both flags clear, it logs one warning for each refused
\* attempt, and with the channel full on entry it leaves the channel as it
\* was.
C8_FullMailboxDropsWithWarning ==
    /\ [](nIrq < MaxIrq => ENABLED on_power_interrupt)
    /\ [][IsIrqStep =>
            /\ events_usbdetected' = 0
            /\ events_usbremoved' = 0
            /\ Warned(log') =
                   FlagsSet - (Len(USB_COMMANDS') - Len(USB_COMMANDS))
            /\ Len(USB_COMMANDS) = 1 =>
                   /\ USB_COMMANDS' = USB_COMMANDS
                   /\ Warned(log') = FlagsSet]_vars

\* An invocation found the channel full and both flags set: two warnings.
C8_Witness ==
    /\ Warned(log) = 2
    /\ Len(USB_COMMANDS) = 1
    /\ events_usbdetected = 0
    /\ events_usbremoved = 0

C10_EndToEnd ==
    /\ [][(IsIrqStep /\ events_usbdetected # 0 /\ USB_COMMANDS = <<>>)
            => USB_COMMANDS' = <<"Enable">>]_vars
    /\ (USB_COMMANDS = <<"Enable">>) ~> enabled
    /\ [](lastCb = [cb |-> "configured", arg |-> TRUE] => configured)
    /\ []((/\ nPress = 1
           /\ button = "high"
           /\ in_pc = "wait_for_low"
           /\ ~in_woken)
          => reports = <<PressedReport, ReleasedReport>>)

\* The whole scenario has run: one interrupt, device enabled and
\* configured, one press and release reported.
C10_Witness ==
    /\ nIrq = 1
    /\ enabled
    /\ configured
    /\ nPress = 1
    /\ button = "high"
    /\ in_pc = "wait_for_low"
    /\ reports = <<PressedReport, ReleasedReport>>

\* ------------------------------------------------- steps of the parties
\* A step of in_fut moves its await point; a step of out_fut returns an
\* answer to the HID class.
IsInStep == in_pc' # in_pc

IsOutStep == out_resp' # "-"

IsSubmitStep == Len(reports') > Len(reports)

\* C11: in_fut hands no report to the IN endpoint in a step that starts
\* with SUSPENDED true.
C11_NoReportWhileSuspended ==
    [][IsSubmitStep => ~SUSPENDED]_vars

Has(l, x) == \E i \in 1..Len(l) : l[i] = x

\* C13 as claimed: a command the handler drops is the same as the command
\* that is pending in the channel at that attempt (Enable is attempted on
\* the channel as found, Disable on the channel as left).
C13_DroppedIsDuplicate ==
    [][IsIrqStep =>
         /\ Has(log', "Failed to send enable command to USB channel")
               => USB_COMMANDS = <<"Enable">>
         /\ Has(log', "Failed to send disable command to USB channel")
               => USB_COMMANDS' = <<"Disable">>]_vars

\* C13 as amended: a command the handler drops is lost, not queued: the
\* channel was full at that attempt and keeps the command that was pending,
\* which is the one found on entry or, for a dropped Disable on a channel
\* found empty, the Enable of the same invocation.
C13_DroppedIsLost ==
    [][IsIrqStep =>
         /\ Has(log', "Failed to send enable command to USB channel")
               => /\ Len(USB_COMMANDS) = CHANNEL_N
                  /\ USB_COMMANDS' = USB_COMMANDS
         /\ Has(log', "Failed to send disable command to USB channel")
               => /\ Len(USB_COMMANDS') = CHANNEL_N
                  /\ USB_COMMANDS' = IF USB_COMMANDS = <<>>
                                     THEN <<"Enable">>
                                     ELSE USB_COMMANDS]_vars

\* Enable is pending, not yet applied, and the Disable of the next
\* invocation has just been dropped: the dropped command is not the pending
\* one, and applying the pending one leaves the device enabled.
C13_Witness ==
    /\ ~enabled
    /\ nIrq = 2
    /\ USB_COMMANDS = <<"Enable">>
    /\ log = <<"Vbus removed, disabling USB...",
               "Failed to send disable command to USB channel">>

\* The info! records of the callbacks of MyDeviceStateHandler.
CallbackRecords ==
    {"Bus reset", "USB address set to", "Device configured",
     "Device is no longer configured", "Device suspended",
     "Device resumed, configured current limit",
     "Device resumed, the Vbus current limit is 100mA", "Device disabled"}

\* C14: a step of in_fut, of out_fut or of the interrupt handler leaves
\* configured and SUSPENDED as they were; a step that changes one of them
\* is the step of exactly one callback of MyDeviceStateHandler.
C14_FlagsChangeOnlyInCallbacks ==
    /\ [][(IsInStep \/ IsOutStep \/ IsIrqStep) =>
            UNCHANGED <<configured, SUSPENDED>>]_vars
    /\ [][(configured' # configured \/ SUSPENDED' # SUSPENDED) =>
            /\ Len(log') = 1
            /\ log'[1] \in CallbackRecords]_vars

\* Both flags are set and survive two interrupts, a press and a release
\* handled by in_fut, and a set_report answered by out_fut.
C14_Witness ==
    /\ configured
    /\ SUSPENDED
    /\ nIrq = 2
    /\ Len(reports) = 2
    /\ out_resp = "Accepted"

\* The records of the detected flag and of the removed flag.
DetectedRecords ==
    {"Vbus detected, enabling USB...",
     "Failed to send enable command to USB channel"}

RemovedRecords ==
    {"Vbus removed, disabling USB...",
     "Failed to send disable command to USB channel"}

\* C15: one invocation of the handler handles each flag asserted on entry
\* once: it logs the flag, makes one attempt with the matching command
\* (the command is appended, or one warning is logged), the detected flag
\* before the removed flag; a flag that is clear causes neither record nor
\* attempt; both flags are clear on return.
C15_EachFlagHandledOnce ==
    [][IsIrqStep =>
         LET d == events_usbdetected # 0
             r == events_usbremoved # 0
             sentE == USB_COMMANDS' = Append(USB_COMMANDS, "Enable")
             sentD == USB_COMMANDS' = Append(USB_COMMANDS, "Disable")
             warnE == Has(log', "Failed to send enable command to USB channel")
             warnD == Has(log', "Failed to send disable command to USB channel")
         IN  /\ events_usbdetected' = 0
             /\ events_usbremoved' = 0
             /\ Has(log', "Vbus detected, enabling USB...") <=> d
             /\ Has(log', "Vbus removed, disabling USB...") <=> r
             /\ d => (sentE <=> ~warnE)
             /\ r => (sentD <=> ~warnD)
             /\ ~d => ~warnE /\ ~sentE
             /\ ~r => ~warnD /\ ~sentD
             /\ USB_COMMANDS' # USB_COMMANDS => sentE \/ sentD
             /\ \A i, j \in 1..Len(log') :
                   /\ i # j => log'[i] # log'[j]
                   /\ (log'[i] \in DetectedRecords
                       /\ log'[j] \in RemovedRecords) => i < j]_vars

\* The second invocation found the channel empty and both flags set: the
\* Enable went in, then the Disable was refused.
C15_Witness ==
    /\ nIrq = 2
    /\ USB_COMMANDS = <<"Enable">>
    /\ events_usbdetected = 0
    /\ events_usbremoved = 0
    /\ log = <<"Vbus detected, enabling USB...",
               "Vbus removed, disabling USB...",
               "Failed to send disable command to USB channel">>

\* C16 as claimed: in_fut passes a press edge with SUSPENDED set only when
\* the channel has room, and the step puts RemoteWakeup into the channel
\* before the pressed report is handed over.
C16_WakeupSendBlocks ==
    [][(IsPressStep /\ SUSPENDED) =>
         /\ Len(USB_COMMANDS) < CHANNEL_N
         /\ Has(USB_COMMANDS', "RemoteWakeup")]_vars

\* The wait that follows each serialize.
NextWait(pc) ==
    IF pc = "serialize_pressed" THEN "wait_for_high" ELSE "wait_for_low"

\* C17: a serialize that fails logs one warning and nothing else: the
\* report is not handed over again and in_fut goes on to the wait for the
\* next edge, which it then handles as after a success; in_fut is always
\* at one of its four await points.
C17_SubmissionFailureNonFatal ==
    /\ [][Has(log', "Failed to send report") =>
            /\ in_pc \in {"serialize_pressed", "serialize_released"}
            /\ log' = <<"Failed to send report">>
            /\ reports' = reports
            /\ in_pc' = NextWait(in_pc)]_vars
    /\ [](in_pc \in {"wait_for_low", "serialize_pressed", "wait_for_high",
                     "serialize_released"})
    /\ [](in_pc \in {"serialize_pressed", "serialize_released"} =>
            ENABLED in_fut_serialized(FALSE))
    /\ []((in_pc = "wait_for_high" /\ in_woken
           /\ Len(reports) < MaxReports) => ENABLED in_fut_released)

\* The serialize of the released report has just failed: in_fut is back
\* at the wait for the next press, two reports handed over in all.
C17_Witness ==
    /\ log = <<"Failed to send report">>
    /\ in_pc = "wait_for_low"
    /\ Len(reports) = 2

\* C18: every method of the request handler gives the same answer for
\* every argument, a step of out_fut changes nothing but the log and the
\* answer, and a get_idle that follows a set_idle still answers None.
C18_RequestHandlerStateless ==
    /\ [](\A id \in ReportIds :
             /\ get_report(id).ret = "None"
             /\ \A data \in Payloads : set_report(id, data).ret = "Accepted")
    /\ [](\A id \in IdleIds :
             /\ get_idle(id).ret = "None"
             /\ \A dur \in Durations : set_idle(id, dur).ret = "()")
    /\ [][IsOutStep =>
            /\ UNCHANGED <<chanVars, powerVars, irqGhost, SUSPENDED,
                           configured, cbGhost, enabled, inVars, lineVars>>
            /\ log' = <<"Get report for">> => out_resp' = "None"
            /\ log' = <<"Set report for">> => out_resp' = "Accepted"
            /\ log' = <<"Set idle rate for">> => out_resp' = "()"
            /\ log' = <<"Get idle rate for">> => out_resp' = "None"
            /\ Len(log') = 1]_vars
    /\ [][(out_resp = "()" /\ log' = <<"Get idle rate for">>) =>
            out_resp' = "None"]_vars

\* A get_idle has been answered with None.
C18_Witness ==
    /\ log = <<"Get idle rate for">>
    /\ out_resp = "None"

\* C19: the callbacks other than suspended() leave SUSPENDED as it was and
\* suspended() leaves configured as it was; so after suspended(true),
\* whatever callbacks follow, a press edge takes the wakeup branch until
\* suspended(false) arrives.
C19_FlagsWrittenIndependently ==
    /\ [][(Len(log') = 1
           /\ log'[1] \in {"Bus reset", "USB address set to",
                           "Device configured",
                           "Device is no longer configured",
                           "Device disabled"}) =>
            SUSPENDED' = SUSPENDED]_vars
    /\ [][lastCb' # lastCb => SUSPENDED' = SUSPENDED]_vars
    /\ [][lastSusp' # lastSusp => configured' = configured]_vars
    /\ [][(IsPressStep /\ lastSusp = <<TRUE>>) => WakeBranch(log')]_vars

\* suspended(true), then disabled(), then a press that took the wakeup
\* branch.
C19_Witness ==
    /\ lastSusp = <<TRUE>>
    /\ lastCb.cb = "disabled"
    /\ ~enabled
    /\ SUSPENDED
    /\ WakeBranch(log)
    /\ in_pc = "serialize_pressed"

\* C20: the step of in_fut at a release edge logs RELEASED, hands over the
\* released report and leaves the channel alone whatever SUSPENDED is; the
\* wakeup branch is taken at press edges only.
C20_FlagReadOnlyAtPress ==
    /\ [][(in_pc = "wait_for_high" /\ IsInStep) =>
            /\ log' = <<"RELEASED">>
            /\ USB_COMMANDS' = USB_COMMANDS
            /\ reports' = Append(reports, ReleasedReport)]_vars
    /\ [][WakeBranch(log') => IsPressStep]_vars

\* The device was suspended and a release edge has just been handled: the
\* released report is handed over, the channel is empty.
C20_Witness ==
    /\ SUSPENDED
    /\ lastSusp = <<TRUE>>
    /\ log = <<"RELEASED">>
    /\ in_pc = "serialize_released"
    /\ USB_COMMANDS = <<>>

=============================================================================
